---- MODULE Spec2Model ----
(***************************************************************************)
(* A model of the portfolio simulator's price-cache engine                 *)
(* (portfolio_engine.py) and of the Flask application's update triggers    *)
(* (app.py).                                                               *)
(*                                                                         *)
(* Dates are numbered days: the code compares ISO "YYYY-MM-DD" strings,    *)
(* whose lexicographic order is the calendar order.  Prices are small      *)
(* positive integers.  The ticker lists of config.py are scaled down to    *)
(* one long and one short name.                                            *)
(***************************************************************************)
EXTENDS Integers, Sequences, FiniteSets, TLC

(* ------------------------------ bounds -------------------------------- *)

\* The last calendar day the model's clock reaches.
MaxDay == 2

\* Closing prices range over 1..MaxPrice.
MaxPrice == 2

\* Faults in one behaviour: a process that stops and is started again, a
\* write to the cache file that raises, a progress callback that raises.
MaxFaults == 1

\* Thread slots for background_update threads alive at once.
MaxWorkers == 2

\* Request threads of the web server serving update_data at once.
MaxHandlers == 2

\* HTTP requests one pass issues in the thread-level model.
MaxRequests == 2

\* Clock ticks per second in the thread-level model.
TicksPerSecond == 2

(* --------------------------- configuration ---------------------------- *)

TOP_100 == <<"A">>

BOTTOM_100 == <<"B">>

SP500_TICKER == "^GSPC"

RUSSELL3000_TICKER == "^RUA"

INCEPTION_DATE == 1

\* Mutant: the retry loop runs once more.
MoreRetries == 3 + 1

max_retries == 3

MARKETSTACK_REQUESTS_PER_SECOND == 1

\* self.min_request_interval = 1.0 / MARKETSTACK_REQUESTS_PER_SECOND, in ticks.
min_request_interval == TicksPerSecond \div MARKETSTACK_REQUESTS_PER_SECOND

Workers == 1..MaxWorkers

Handlers == 1..MaxHandlers

\* self.all_tickers, set once by the constructor.
all_tickers == TOP_100 \o BOTTOM_100 \o <<SP500_TICKER, RUSSELL3000_TICKER>>

total == Len(all_tickers)

Tickers == {all_tickers[i] : i \in 1..total}

Dates == INCEPTION_DATE..MaxDay

Prices == 1..MaxPrice

(* ---------------------------- finite maps ----------------------------- *)

\* The empty dict.
EmptyMap == [x \in {} |-> 0]

\* A value that may be None: Python's None, or the mapping m.
None == [none |-> TRUE, data |-> [x \in {} |-> 0]]

Some(m) == [none |-> FALSE, data |-> m]

\* d[k] = v on a dict d.
Put(d, k, v) == [x \in (DOMAIN d) \cup {k} |-> IF x = k THEN v ELSE d[x]]

MaxOf(S) == CHOOSE m \in S : \A x \in S : x <= m

\* Every date -> price mapping over the days in D, the empty one included.
SeriesOver(D) == UNION {[S -> Prices] : S \in SUBSET D}

\* self.ticker_map.get(ticker, ticker)
_map_ticker(ticker) ==
    IF ticker = "^GSPC" THEN "SPY"
    ELSE IF ticker = "^RUA" THEN "IWV"
    ELSE ticker

(* ------------------------------ numbers ------------------------------- *)

\* Prices and returns are floats in the code.  Here they are exact fractions
\* n/d in lowest terms with d > 0; d = 0 stands for NaN.
RECURSIVE GCD(_, _)
GCD(a, b) == IF b = 0 THEN a ELSE GCD(b, a % b)

Abs(x) == IF x < 0 THEN 0 - x ELSE x

\* n/d with the common divisor g taken out.
Reduced(n, d, g) ==
    [n |-> (IF n < 0 THEN 0 - (Abs(n) \div g) ELSE n \div g), d |-> d \div g]

\* The fraction n/d, d > 0, in lowest terms.
Frac(n, d) == Reduced(n, d, GCD(Abs(n), d))

Float(i) == [n |-> i, d |-> 1]

NaN == [n |-> 0, d |-> 0]

IsNaN(q) == q.d = 0

Plus(p, q) == IF IsNaN(p) \/ IsNaN(q) THEN NaN ELSE Frac(p.n * q.d + q.n * p.d, p.d * q.d)

Negated(p) == [n |-> 0 - p.n, d |-> p.d]

Minus(p, q) == Plus(p, Negated(q))

Times(p, q) == IF IsNaN(p) \/ IsNaN(q) THEN NaN ELSE Frac(p.n * q.n, p.d * q.d)

\* p / q for q # 0.
Over(p, q) ==
    IF IsNaN(p) \/ IsNaN(q) THEN NaN
    ELSE IF q.n > 0 THEN Frac(p.n * q.d, p.d * q.n)
    ELSE Frac(0 - (p.n * q.d), p.d * (0 - q.n))

Below(p, q) == p.n * q.d < q.n * p.d

\* a / d rounded to the nearest integer, a tie going to the even one (a >= 0).
HalfEven(a, d) ==
    IF 2 * (a % d) > d \/ (2 * (a % d) = d /\ (a \div d) % 2 = 1)
    THEN (a \div d) + 1
    ELSE a \div d

\* round(x, 2): the nearest multiple of 0.01, a tie going to the even one.
Round2(q) ==
    IF IsNaN(q) THEN NaN
    ELSE Frac((IF q.n < 0 THEN 0 - 1 ELSE 1) * HalfEven(Abs(q.n) * 100, q.d), 100)

RECURSIVE SumOf(_, _)
SumOf(seq, i) == IF i > Len(seq) THEN Float(0) ELSE Plus(seq[i], SumOf(seq, i + 1))

\* np.mean of a non-empty list.
Mean(seq) == Over(SumOf(seq, 1), Float(Len(seq)))

MinOf(S) == CHOOSE m \in S : \A x \in S : m <= x

(* --------------------------- the cache file --------------------------- *)

\* The file's text is the sequence of chunks json.dump writes: an opening
\* brace, one entry per ticker, a closing brace.
TokOpen == [tok |-> "{", k |-> "", v |-> EmptyMap]

TokClose == [tok |-> "}", k |-> "", v |-> EmptyMap]

TokJunk == [tok |-> "junk", k |-> "", v |-> EmptyMap]

TokEntry(k, v) == [tok |-> "entry", k |-> k, v |-> v]

RECURSIVE DumpEntries(_, _)
DumpEntries(store, i) ==
    IF i > total THEN << >>
    ELSE (IF all_tickers[i] \in DOMAIN store
          THEN <<TokEntry(all_tickers[i], store[all_tickers[i]])>>
          ELSE << >>) \o DumpEntries(store, i + 1)

\* json.dump(self.price_cache, f): the text of a store.
Dump(store) == <<TokOpen>> \o DumpEntries(store, 1) \o <<TokClose>>

\* Whether json.load accepts a text: a brace, entries, a brace.
WellFormed(text) ==
    /\ Len(text) >= 2
    /\ text[1] = TokOpen
    /\ text[Len(text)] = TokClose
    /\ \A i \in 2..(Len(text) - 1) : text[i].tok = "entry"

\* json.load(f) of a well-formed text.
Parse(text) ==
    LET keys == {text[i].k : i \in 2..(Len(text) - 1)}
    IN  [k \in keys |->
           LET last == MaxOf({i \in 2..(Len(text) - 1) : text[i].k = k})
           IN  text[last].v]

NoFile == [exists |-> FALSE, text |-> << >>]

FileOf(text) == [exists |-> TRUE, text |-> text]

\* Mutant: the entries read before the text went wrong are kept.
load_keeps_entries(file) ==
    LET at == {i \in 1..Len(file.text) : file.text[i].tok = "entry"}
    IN  IF file.exists
        THEN [k \in {file.text[i].k : i \in at} |->
                file.text[MaxOf({i \in at : file.text[i].k = k})].v]
        ELSE EmptyMap

\* _load_cache: the parsed file, or {} when it is absent or json.load raises.
_load_cache(file) ==
    IF file.exists
    THEN (IF WellFormed(file.text) THEN Parse(file.text) ELSE EmptyMap)
    ELSE EmptyMap

(* ----------------------------- analytics ------------------------------ *)

INITIAL_CAPITAL == 100000

\* POSITION_SIZE = 0.01
POSITION_SIZE == Frac(1, 100)

\* get_price_series: the ticker's cached prices as a Series sorted by date.
\* For a ticker without an entry it is pd.Series(), an empty Series whose
\* index is no DatetimeIndex (dated is FALSE).
get_price_series(cache, t) ==
    IF t \in DOMAIN cache
    THEN [dated |-> TRUE, data |-> cache[t]]
    ELSE [dated |-> FALSE, data |-> EmptyMap]

\* Mutant: the series is not filtered by the inception date.
Unfiltered(series) == series

\* prices[prices.index >= inception_date]
FromInception(series) ==
    [d \in {x \in DOMAIN series : x >= INCEPTION_DATE} |-> series[d]]

\* Mutant: the short side is not inverted.
NotInverted(ret) == ret

\* Lines 265 and 324: the return of a short position is the long return negated.
Inverted(ret) == Negated(ret)

\* The return ret of a price path as the side sees it.
Signed(side, ret) == IF side = "Short" THEN Inverted(ret) ELSE ret

\* Mutant: the return is measured from the last price of the window.
ReturnFromLast(window, d, side) ==
    Signed(side, Minus(Over(Float(window[d]), Float(window[MaxOf(DOMAIN window)])),
                       Float(1)))

\* price / first in-window price - 1, inverted for the short side.
ReturnAt(window, d, side) ==
    Signed(side, Minus(Over(Float(window[d]), Float(window[MinOf(DOMAIN window)])),
                       Float(1)))

\* One entry of position_data (lines 237-250 and 263-276), given the
\* position's total return in percent and its size.
PositionData(t, side, window, total_return, size) ==
    [ticker |-> t,
     side |-> side,
     inception_price |-> Round2(Float(window[MinOf(DOMAIN window)])),
     current_price |-> Round2(Float(window[MaxOf(DOMAIN window)])),
     total_return_pct |-> Round2(total_return),
     position_size |-> size,
     current_value |->
         Round2(Times(size, Plus(Float(1), Over(total_return, Float(100))))),
     pnl |-> Round2(Over(Times(size, total_return), Float(100)))]

Position(t, side, window) ==
    PositionData(t, side, window,
                 Times(ReturnAt(window, MaxOf(DOMAIN window), side), Float(100)),
                 Times(Float(INITIAL_CAPITAL), POSITION_SIZE))

\* The ticker's entry: none for a ticker with fewer than 2 cached prices, or
\* with none from the inception date on.
PositionIfAny(t, side, series, window) ==
    IF Cardinality(DOMAIN series) < 2 \/ DOMAIN window = {}
    THEN << >>
    ELSE <<Position(t, side, window)>>

\* The loop over one side's tickers.
RECURSIVE PositionsOf(_, _, _, _)
PositionsOf(cache, tickers, side, i) ==
    IF i > Len(tickers) THEN << >>
    ELSE PositionIfAny(tickers[i], side,
                       get_price_series(cache, tickers[i]).data,
                       FromInception(get_price_series(cache, tickers[i]).data))
           \o PositionsOf(cache, tickers, side, i + 1)

calculate_position_returns(cache) ==
    PositionsOf(cache, TOP_100, "Long", 1) \o PositionsOf(cache, BOTTOM_100, "Short", 1)

\* Lines 285-291: the cached dates of the universe from the inception date on.
all_dates(cache) ==
    {d \in UNION {DOMAIN cache[t] : t \in Tickers \cap DOMAIN cache} :
        d >= INCEPTION_DATE}

\* date_long_return / date_short_return: the returns of one side's tickers
\* that have a price on the date.
ReturnIfAny(window, date, side) ==
    IF date \in DOMAIN window THEN <<ReturnAt(window, date, side)>> ELSE << >>

RECURSIVE SideReturns(_, _, _, _, _)
SideReturns(cache, tickers, side, date, i) ==
    IF i > Len(tickers) THEN << >>
    ELSE ReturnIfAny(FromInception(get_price_series(cache, tickers[i]).data), date, side)
           \o SideReturns(cache, tickers, side, date, i + 1)

\* np.mean(returns) if returns else 0
MeanOrZero(returns) == IF returns # << >> THEN Mean(returns) ELSE Float(0)

\* Lines 331-336: the row of a date.
ReturnRow(date, long_avg, short_avg) ==
    [date |-> date,
     long_return |-> long_avg,
     short_return |-> short_avg,
     portfolio_return |-> Over(Plus(long_avg, short_avg), Float(2))]

\* Lines 327-337: a row is appended when a side has a return on the date.
RowIfAny(date, date_long_return, date_short_return) ==
    IF date_long_return # << >> \/ date_short_return # << >>
    THEN <<ReturnRow(date, MeanOrZero(date_long_return), MeanOrZero(date_short_return))>>
    ELSE << >>

RowOn(cache, date) ==
    RowIfAny(date,
             SideReturns(cache, TOP_100, "Long", date, 1),
             SideReturns(cache, BOTTOM_100, "Short", date, 1))

\* Lines 299-337: one row per date on which a side has a return, in date order.
RECURSIVE ReturnRows(_, _)
ReturnRows(cache, dates) ==
    IF dates = {} THEN << >>
    ELSE RowOn(cache, MinOf(dates)) \o ReturnRows(cache, dates \ {MinOf(dates)})

\* (1 + column).cumprod() at row i.
RECURSIVE CumProd(_, _)
CumProd(rows, i) ==
    IF i = 0 THEN Float(1)
    ELSE Times(CumProd(rows, i - 1), Plus(Float(1), rows[i].portfolio_return))

\* Lines 351-358 and 361-368: whether the benchmark's column is added.
HasColumn(cache, benchmark) ==
    DOMAIN FromInception(get_price_series(cache, benchmark).data) # {}

\* The benchmark's column at row i: its rebased return on the row's date,
\* left-joined on the rows' dates and filled forward down the rows.
RECURSIVE Joined(_, _, _)
Joined(window, rows, i) ==
    IF i = 0 THEN NaN
    ELSE IF rows[i].date \in DOMAIN window
    THEN Minus(Over(Float(window[rows[i].date]), Float(window[MinOf(DOMAIN window)])),
               Float(1))
    ELSE Joined(window, rows, i - 1)

BenchmarkAt(cache, benchmark, rows, i) ==
    IF HasColumn(cache, benchmark)
    THEN Joined(FromInception(get_price_series(cache, benchmark).data), rows, i)
    ELSE NaN

\* A DataFrame: raised says the call raised instead of returning one.
EmptyFrame == [raised |-> FALSE, columns |-> {}, rows |-> << >>]

RaisedFrame == [raised |-> TRUE, columns |-> {}, rows |-> << >>]

\* Lines 339-370: the frame of the rows, with the cumulative return, the
\* portfolio value and the benchmarks' columns.
Frame(cache, rows) ==
    IF rows = << >> THEN EmptyFrame
    ELSE [raised |-> FALSE,
          columns |-> {c \in {"sp500_return", "russell3000_return"} :
                         HasColumn(cache, IF c = "sp500_return"
                                          THEN SP500_TICKER
                                          ELSE RUSSELL3000_TICKER)},
          rows |->
            [i \in 1..Len(rows) |->
               [date |-> rows[i].date,
                long_return |-> rows[i].long_return,
                short_return |-> rows[i].short_return,
                portfolio_return |-> rows[i].portfolio_return,
                cumulative_return |-> Minus(CumProd(rows, i), Float(1)),
                portfolio_value |->
                    Times(Float(INITIAL_CAPITAL), CumProd(rows, i)),
                sp500_return |-> BenchmarkAt(cache, SP500_TICKER, rows, i),
                russell3000_return |->
                    BenchmarkAt(cache, RUSSELL3000_TICKER, rows, i)]]]

\* calculate_portfolio_timeseries.  Filtering or formatting the index of the
\* pd.Series() of a basket ticker without an entry raises (lines 307-309,
\* 319-321) as soon as there is a date to loop over.
calculate_portfolio_timeseries(cache) ==
    IF all_dates(cache) = {} THEN EmptyFrame
    ELSE IF \E i \in 1..Len(TOP_100 \o BOTTOM_100) :
               ~get_price_series(cache, (TOP_100 \o BOTTOM_100)[i]).dated
    THEN RaisedFrame
    ELSE Frame(cache, ReturnRows(cache, all_dates(cache)))

\* Mutant: the running maximum is taken to be the current value.
NoRunningMax(rows, i) == CumProd(rows, i)

\* cumulative.expanding().max() at row i.
RunningMax(rows, i) ==
    LET best == CHOOSE j \in 1..i :
                    \A k \in 1..i : ~Below(CumProd(rows, j), CumProd(rows, k))
    IN  CumProd(rows, best)

\* (cumulative - running_max) / running_max at row i.
DrawdownAt(rows, i) ==
    Over(Minus(CumProd(rows, i), RunningMax(rows, i)), RunningMax(rows, i))

\* Lines 399-403: drawdown.min() * 100.
max_drawdown(rows) ==
    LET worst == CHOOSE j \in 1..Len(rows) :
                     \A k \in 1..Len(rows) :
                         ~Below(DrawdownAt(rows, k), DrawdownAt(rows, j))
    IN  Times(DrawdownAt(rows, worst), Float(100))

\* sum of the pnl of one side's positions.
RECURSIVE SidePnl(_, _, _)
SidePnl(positions, side, i) ==
    IF i > Len(positions) THEN Float(0)
    ELSE Plus(IF positions[i].side = side THEN positions[i].pnl ELSE Float(0),
              SidePnl(positions, side, i + 1))

\* Lines 411-417: the benchmark's last value in percent, 0 without its column.
LastBenchmark(timeseries, column) ==
    LET last == timeseries.rows[Len(timeseries.rows)]
    IN  IF column \in timeseries.columns
        THEN Times(IF column = "sp500_return"
                   THEN last.sp500_return ELSE last.russell3000_return,
                   Float(100))
        ELSE Float(0)

\* Lines 380-437: the figures of a non-empty time series and the positions.
Metrics(timeseries, positions, current_value) ==
    [raised |-> FALSE,
     empty |-> FALSE,
     current_value |-> Round2(current_value),
     total_return_pct |->
         Round2(Times(Minus(Over(current_value, Float(INITIAL_CAPITAL)),
                            Float(1)), Float(100))),
     total_pnl |-> Round2(Minus(current_value, Float(INITIAL_CAPITAL))),
     long_pnl |-> Round2(SidePnl(positions, "Long", 1)),
     short_pnl |-> Round2(SidePnl(positions, "Short", 1)),
     max_drawdown |-> Round2(max_drawdown(timeseries.rows)),
     sp500_return |-> Round2(LastBenchmark(timeseries, "sp500_return")),
     russell3000_return |->
         Round2(LastBenchmark(timeseries, "russell3000_return")),
     latest_date |-> timeseries.rows[Len(timeseries.rows)].date,
     days_active |-> Len(timeseries.rows)]

\* Lines 374-378: nothing to report for an empty time series.
MetricsOf(timeseries, positions) ==
    IF timeseries.raised THEN [raised |-> TRUE, empty |-> FALSE]
    ELSE IF timeseries.rows = << >> THEN [raised |-> FALSE, empty |-> TRUE]
    ELSE Metrics(timeseries, positions,
                 timeseries.rows[Len(timeseries.rows)].portfolio_value)

\* calculate_metrics: raised when the time series raises, {} when it is empty.
\* volatility and sharpe_ratio (lines 389-397) and the position rankings
\* (406-408) are left out of the value.
calculate_metrics(cache) ==
    MetricsOf(calculate_portfolio_timeseries(cache), calculate_position_returns(cache))

\* Lines 445-476: the lists of a time series with the columns given.
ChartLists(rows, columns) ==
    [raised |-> FALSE,
     empty |-> FALSE,
     dates |-> [i \in 1..Len(rows) |-> rows[i].date],
     portfolio_values |-> [i \in 1..Len(rows) |-> rows[i].portfolio_value],
     portfolio_returns |->
         [i \in 1..Len(rows) |-> Times(rows[i].cumulative_return, Float(100))],
     daily_returns |->
         [i \in 1..Len(rows) |-> Times(rows[i].portfolio_return, Float(100))],
     drawdown |->
         [i \in 1..Len(rows) |-> Times(DrawdownAt(rows, i), Float(100))],
     sp500_returns |->
         IF "sp500_return" \in columns
         THEN [i \in 1..Len(rows) |-> Times(rows[i].sp500_return, Float(100))]
         ELSE << >>,
     russell3000_returns |->
         IF "russell3000_return" \in columns
         THEN [i \in 1..Len(rows) |-> Times(rows[i].russell3000_return, Float(100))]
         ELSE << >>]

\* Lines 441-443: {} for an empty time series.
ChartsOf(timeseries) ==
    IF timeseries.raised THEN [raised |-> TRUE, empty |-> FALSE]
    ELSE IF timeseries.rows = << >> THEN [raised |-> FALSE, empty |-> TRUE]
    ELSE ChartLists(timeseries.rows, timeseries.columns)

\* get_chart_data of the engine: the time series as lists.
chart_data(cache) == ChartsOf(calculate_portfolio_timeseries(cache))

(* ------------------------- the quote provider ------------------------- *)

\* The symbols the provider has bars for.
VARIABLE listed


\* One provider answer to requests.get: status 0 stands for no answer at all
\* (a transport error or the 30 s timeout, raised by requests.get); valid says
\* whether the body is the JSON the code expects; data maps the dates of the
\* returned bars to their closing prices.
Response(status, valid, data) == [status |-> status, valid |-> valid, data |-> data]

\* What the provider may answer to a request for symbol over [date_from, date_to].
ProviderResponses(symbol, date_from, date_to) ==
    LET window == {d \in Dates : date_from <= d /\ d <= date_to}
        bars == IF symbol \in listed THEN SeriesOver(window) \ {EmptyMap} ELSE {}
    IN  {Response(200, TRUE, b) : b \in bars}
          \cup {Response(200, TRUE, EmptyMap), Response(200, FALSE, EmptyMap),
                Response(429, TRUE, EmptyMap), Response(500, TRUE, EmptyMap),
                Response(0, FALSE, EmptyMap)}

(* ------------------------------- state -------------------------------- *)

VARIABLES
    price_cache,        \* self.price_cache: ticker -> (date -> price)
    cache_file,         \* data/price_cache.json on disk
    clock_day,          \* the calendar day datetime.now() reports
    pc,                 \* where the caller of update_price_data stands
    idx,                \* enumerate index of the loop over all_tickers
    today,              \* update_price_data's local today
    force_refresh,      \* update_price_data's argument
    progress_callback,  \* "none" or "supplied"
    results,            \* update_price_data's local results
    start_date,         \* update_price_data's local start_date
    attempt,            \* _fetch_ticker_data's loop variable
    prices,             \* the value _fetch_ticker_data returned
    faults,             \* faults so far: process stops, write errors, callback errors
    requests,           \* history: HTTP requests issued by the fetch call in progress
    requested,          \* history: the tickers a request was issued for in this pass
    fetched,            \* history: the prices fetched per ticker in this pass
    error_at,           \* history: the ticker whose processing raised, or ""
    raised_in,          \* history: the code that raised: "", "callback", "decision", "fetch", "save"
    caught,             \* history: the fetch call in progress has caught an exception
    throttled,          \* history: the fetch call in progress has been answered 429
    asked,              \* history: date_from and date_to of the fetch call's latest request
    backoff,            \* history: the backoff sleep before each attempt of the fetch call
    calls,              \* history: the arguments of the progress callback's calls in this pass
    last_saved,         \* history: the store the file held when the save in progress opened it
    prev                \* history: what the pass just before this one updated

passVars == <<pc, idx, today, force_refresh, progress_callback, results,
              start_date, attempt, prices>>

histVars == <<faults, requests, requested, fetched, error_at, raised_in, caught, throttled, asked, backoff, calls,
              last_saved, prev>>

engineVars == <<listed, price_cache, cache_file, clock_day, passVars, histVars>>

\* The Flask process around the engine (app.py), at the grain of its threads.
VARIABLES
    running,            \* refresh_status['running']
    error,              \* refresh_status has the key 'error'
    worker,             \* per thread slot: where a background_update thread stands
    issued,             \* per thread slot: requests its pass has issued
    sleep_time,         \* per thread slot: ticks left of the sleep in _rate_limit
    handler,            \* per request thread: where an update_data call stands
    job,                \* where the scheduler's scheduled_update call stands
    last_request_age,   \* time.time() - self.last_request_time in ticks, capped
    request_age,        \* history: ticks since the latest HTTP request, capped
    request_gap         \* history: ticks between the two latest HTTP requests, capped

appVars == <<running, error, worker, issued, sleep_time, handler, job,
             last_request_age, request_age, request_gap>>

\* The latest answer of an analytics route of app.py.
VARIABLE reply

vars == <<engineVars, appVars, reply>>

NoReply == [route |-> "", status |-> 0]

\* No request has been built yet.
NoRequest == [date_from |-> 0, date_to |-> 0]

NoResults == [updated |-> << >>, failed |-> << >>, skipped |-> << >>]

\* prev when no pass without force_refresh has just returned on this day.
NoPrev == [valid |-> FALSE, updated |-> {}]

ticker == all_tickers[idx]

SeqToSet(s) == {s[i] : i \in 1..Len(s)}

(* The cache files a deployment may start from: none, an unreadable one,   *)
(* and saved stores, one of them holding a ticker with an empty series.    *)
InitialFiles ==
    { NoFile,
      FileOf(<<TokJunk>>),
      FileOf(Dump([t \in {"A"} |-> [d \in {INCEPTION_DATE} |-> 1]])),
      FileOf(Dump([t \in {"B"} |-> EmptyMap])) }

\* The state a constructed engine is in, given the file it finds.
Constructed(file) ==
    /\ cache_file = file
    /\ price_cache = _load_cache(file)
    /\ pc = "idle"
    /\ idx = 1
    /\ today = INCEPTION_DATE
    /\ force_refresh = FALSE
    /\ progress_callback = "none"
    /\ results = NoResults
    /\ start_date = INCEPTION_DATE
    /\ attempt = 0
    /\ prices = None

\* The engine after construction, over the files it may find, against a
\* provider that lists symbols.
EngineInit(files, symbols) ==
    /\ listed = symbols
    /\ \E file \in files :
         /\ Constructed(file)
         /\ last_saved = EmptyMap
    /\ clock_day = INCEPTION_DATE
    /\ faults = 0
    /\ requests = 0
    /\ requested = {}
    /\ fetched = EmptyMap
    /\ error_at = ""
    /\ raised_in = ""
    /\ caught = FALSE
    /\ throttled = FALSE
    /\ asked = NoRequest
    /\ backoff = << >>
    /\ calls = << >>
    /\ prev = NoPrev

\* app.py as imported, no thread started: refresh_status as lines 21-28 build it.
AppLoaded ==
    /\ running = FALSE
    /\ error = FALSE
    /\ worker = [w \in Workers |-> "none"]
    /\ issued = [w \in Workers |-> 0]
    /\ sleep_time = [w \in Workers |-> 0]
    /\ handler = [h \in Handlers |-> "idle"]
    /\ job = "idle"
    /\ last_request_age = min_request_interval
    /\ request_age = min_request_interval
    /\ request_gap = min_request_interval

\* The provider lists the Russell 3000 proxy: the last ticker of the universe
\* is the one a pass can update.
Init == EngineInit(InitialFiles, {"IWV"}) /\ AppLoaded /\ reply = NoReply

\* The provider lists the S&P 500 proxy instead: a pass can update a ticker
\* and go on to the next.
InitMid == EngineInit(InitialFiles, {"SPY"}) /\ AppLoaded /\ reply = NoReply

(* ------------------------ update_price_data --------------------------- *)

\* update_price_data is entered: today is read once, results start empty.
StartPass(force, callback) ==
    /\ pc = "idle"
    /\ pc' = "loop"
    /\ idx' = 1
    /\ today' = clock_day
    /\ force_refresh' = force
    /\ progress_callback' = callback
    /\ results' = NoResults
    /\ requests' = 0
    /\ requested' = {}
    /\ fetched' = EmptyMap
    /\ error_at' = ""
    /\ raised_in' = ""
    /\ caught' = FALSE
    /\ throttled' = FALSE
    /\ asked' = NoRequest
    /\ backoff' = << >>
    /\ calls' = << >>
    /\ UNCHANGED <<price_cache, cache_file, clock_day, start_date, attempt, prices,
                   faults, last_saved, prev>>
    /\ UNCHANGED <<listed, appVars, reply>>

\* Mutant: every ticker is appended to the failed list.
ClassifiedAsFailed(res, kind, t) == [res EXCEPT !["failed"] = Append(@, t)]

\* results[kind].append(t)
Classified(res, kind, t) == [res EXCEPT ![kind] = Append(@, t)]

\* The loop is at a ticker of the universe.
AtTicker == pc = "loop" /\ idx <= total

\* Mutant: a ticker is skipped only when its latest cached date is after today.
DecisionStrictlyLater(cache, t, force, day) ==
    IF t \in DOMAIN cache /\ ~force
    THEN (IF DOMAIN cache[t] = {} THEN "raise"
          ELSE IF MaxOf(DOMAIN cache[t]) > day THEN "skip"
          ELSE "today")
    ELSE "full"

\* Mutant: force_refresh is ignored.
DecisionIgnoresForce(cache, t, force, day) ==
    IF t \in DOMAIN cache
    THEN (IF DOMAIN cache[t] = {} THEN "raise"
          ELSE IF MaxOf(DOMAIN cache[t]) >= day THEN "skip"
          ELSE "today")
    ELSE "full"

\* The branch of lines 182-191 taken for the ticker: "skip", "today" (fetch
\* today only), "full" (fetch from inception) or "raise" (max() of an empty
\* series raises ValueError).
Decision(cache, t, force, day) ==
    IF t \in DOMAIN cache /\ ~force
    THEN (IF DOMAIN cache[t] = {} THEN "raise"
          ELSE IF MaxOf(DOMAIN cache[t]) >= day THEN "skip"
          ELSE "today")
    ELSE "full"

\* if progress_callback: progress_callback(idx, total, ticker)
Called ==
    IF progress_callback = "supplied"
    THEN Append(calls, <<idx, total, ticker>>)
    ELSE calls

\* An exception leaves update_price_data: nothing in the loop catches it.
Propagate(source) ==
    /\ pc' = "raised"
    /\ error_at' = ticker
    /\ raised_in' = source
    /\ UNCHANGED <<price_cache, cache_file, clock_day, idx, today, force_refresh,
                   progress_callback, results, start_date, attempt, prices,
                   requests, requested, fetched, caught, throttled, asked, backoff,
                   last_saved, prev>>
    /\ calls' = Called

\* progress_callback(idx, total, ticker) raises.
CallbackRaises ==
    /\ AtTicker
    /\ progress_callback = "supplied"
    /\ faults < MaxFaults
    /\ faults' = faults + 1
    /\ Propagate("callback")
    /\ UNCHANGED <<listed, appVars, reply>>

\* max(self.price_cache[ticker].keys()) raises on an empty series.
DecisionRaises ==
    /\ AtTicker
    /\ Decision(price_cache, ticker, force_refresh, today) = "raise"
    /\ UNCHANGED faults
    /\ Propagate("decision")
    /\ UNCHANGED <<listed, appVars, reply>>

\* The latest cached date is today or later: skipped, no fetch.
SkipTicker ==
    /\ AtTicker
    /\ Decision(price_cache, ticker, force_refresh, today) = "skip"
    /\ results' = Classified(results, "skipped", ticker)
    /\ idx' = idx + 1
    /\ UNCHANGED <<price_cache, cache_file, clock_day, pc, today, force_refresh,
                   progress_callback, start_date, attempt, prices, faults, requests, requested,
                   fetched, error_at, raised_in, caught, throttled, asked, backoff,
                   last_saved, prev>>
    /\ calls' = Called
    /\ UNCHANGED <<listed, appVars, reply>>

\* Mutant: every fetch starts at the inception date.
AlwaysFromInception(decision, day) == INCEPTION_DATE

\* Lines 187-191: start_date = today for a cached ticker that is behind,
\* start_date = self.inception_date otherwise.
first_date(decision, day) == IF decision = "today" THEN day ELSE INCEPTION_DATE

\* start_date is chosen and _fetch_ticker_data is entered.
BeginFetch ==
    /\ AtTicker
    /\ Decision(price_cache, ticker, force_refresh, today) \in {"today", "full"}
    /\ start_date' = first_date(Decision(price_cache, ticker, force_refresh, today), today)
    /\ attempt' = 0
    /\ pc' = "fetch"
    /\ UNCHANGED <<price_cache, cache_file, clock_day, idx, today, force_refresh,
                   progress_callback, results, prices, faults, requests, requested,
                   fetched, error_at, raised_in, caught, throttled, asked, backoff,
                   last_saved, prev>>
    /\ calls' = Called
    /\ UNCHANGED <<listed, appVars, reply>>

(* ------------------------ _fetch_ticker_data -------------------------- *)

\* Lines 90-94: the sleep before an attempt, none before the first.
wait_time(n) == IF n > 0 THEN (n + 1) * 5 ELSE 0

\* Mutant: the except clause lets the exception through.
OnExceptionReraises == "raise"

\* What the except clause of lines 148-151 does with an exception raised in
\* the try block: the attempt is given up and the loop goes on.
OnException == "continue"

\* Whether the try block raises on this answer: requests.get raises when no
\* answer comes, response.json() or the conversion of a bar when the body of a
\* 200 answer is not the JSON expected.
Raises(resp) == resp.status = 0 \/ (resp.status = 200 /\ ~resp.valid)

\* What one attempt does with the provider's answer: "return" the converted
\* prices, or "continue" with the next attempt.
AttemptOutcome(resp) ==
    IF Raises(resp) THEN OnException
    ELSE IF resp.status = 200
    THEN (IF resp.data = EmptyMap THEN "continue" ELSE "return")
    ELSE "continue"

\* One iteration of the retry loop: the request is issued and answered.
FetchAttempt ==
    /\ pc = "fetch"
    /\ attempt < max_retries
    /\ \E resp \in ProviderResponses(_map_ticker(ticker), start_date, today) :
         LET outcome == AttemptOutcome(resp)
         IN  /\ requests' = requests + 1
             /\ requested' = requested \cup {ticker}
             /\ prices' = IF outcome = "return" THEN Some(resp.data) ELSE prices
             /\ attempt' = IF outcome = "continue" THEN attempt + 1 ELSE attempt
             /\ pc' = CASE outcome = "return" -> "fetched"
                        [] outcome = "continue" -> "fetch"
                        [] OTHER -> "raised"
             /\ caught' = (caught \/ Raises(resp))
             /\ throttled' = (throttled \/ resp.status = 429)
             /\ asked' = [date_from |-> start_date, date_to |-> today]
             /\ backoff' = Append(backoff, wait_time(attempt))
             /\ error_at' = IF outcome \in {"return", "continue"} THEN error_at ELSE ticker
             /\ raised_in' = IF outcome \in {"return", "continue"} THEN raised_in ELSE "fetch"
    /\ UNCHANGED <<price_cache, cache_file, clock_day, idx, today, force_refresh,
                   progress_callback, results, start_date,
                   faults, fetched, calls, last_saved, prev>>
    /\ UNCHANGED <<listed, appVars, reply>>

\* The attempts are used up: return None.
FetchExhausted ==
    /\ pc = "fetch"
    /\ attempt = max_retries
    /\ prices' = None
    /\ pc' = "fetched"
    /\ UNCHANGED <<price_cache, cache_file, clock_day, idx, today, force_refresh,
                   progress_callback, results, start_date, attempt, histVars>>
    /\ UNCHANGED <<listed, appVars, reply>>

(* ------------------------------- merge -------------------------------- *)

\* Python's truth value of the fetch result: None and {} are false.
Truthy(p) == ~p.none /\ p.data # EmptyMap

\* dict.update: the new dates are added, the common ones overwritten.
Update(series, new) ==
    [d \in (DOMAIN series) \cup (DOMAIN new) |->
        IF d \in DOMAIN new THEN new[d] ELSE series[d]]

\* Mutant: the fetched prices replace the cached series.
MergedReplacesSeries(cache, t, new) == Put(cache, t, new)

\* Mutant: a ticker without an entry gets the empty series and no update.
MergedElseUpdate(cache, t, new) ==
    Put(cache, t, IF t \in DOMAIN cache THEN Update(cache[t], new) ELSE EmptyMap)

\* Lines 198-200: the ticker's series after the merge.
Merged(cache, t, new) ==
    Put(cache, t, Update(IF t \in DOMAIN cache THEN cache[t] ELSE EmptyMap, new))

\* Lines 196-203: merge the fetched prices, or classify the ticker failed.
MergeTicker ==
    /\ pc = "fetched"
    /\ IF Truthy(prices)
       THEN /\ price_cache' = Merged(price_cache, ticker, prices.data)
            /\ results' = Classified(results, "updated", ticker)
            /\ fetched' = Put(fetched, ticker, prices.data)
       ELSE /\ results' = Classified(results, "failed", ticker)
            /\ UNCHANGED <<price_cache, fetched>>
    /\ idx' = idx + 1
    /\ pc' = "loop"
    /\ start_date' = INCEPTION_DATE
    /\ attempt' = 0
    /\ prices' = None
    /\ requests' = 0
    /\ caught' = FALSE
    /\ throttled' = FALSE
    /\ asked' = NoRequest
    /\ backoff' = << >>
    /\ UNCHANGED calls
    /\ UNCHANGED <<cache_file, clock_day, today, force_refresh, progress_callback,
                   faults, requested, error_at, raised_in, last_saved, prev>>
    /\ UNCHANGED <<listed, appVars, reply>>

(* ----------------------------- _save_cache ---------------------------- *)

\* The loop is over: open(self.cache_file, 'w') creates or truncates the file.
SaveOpen ==
    /\ pc = "loop"
    /\ idx > total
    /\ cache_file' = FileOf(<< >>)
    /\ last_saved' = _load_cache(cache_file)
    /\ pc' = "saving"
    /\ UNCHANGED <<price_cache, clock_day, idx, today, force_refresh,
                   progress_callback, results, start_date, attempt, prices,
                   faults, requests, requested, fetched, error_at, raised_in, caught, throttled, asked, backoff, calls,
                   prev>>
    /\ UNCHANGED <<listed, appVars, reply>>

\* json.dump writes the next chunk of the text.
SaveWrite ==
    /\ pc = "saving"
    /\ Len(cache_file.text) < Len(Dump(price_cache))
    /\ cache_file' = FileOf(Append(cache_file.text,
                                   Dump(price_cache)[Len(cache_file.text) + 1]))
    /\ UNCHANGED <<price_cache, clock_day, passVars, histVars>>
    /\ UNCHANGED <<listed, appVars, reply>>

\* A write raises (a full disk, an I/O error): the with block closes the file
\* as it is and the exception leaves update_price_data.
SaveFails ==
    /\ pc = "saving"
    /\ Len(cache_file.text) < Len(Dump(price_cache))
    /\ faults < MaxFaults
    /\ faults' = faults + 1
    /\ pc' = "raised"
    /\ raised_in' = "save"
    /\ UNCHANGED <<price_cache, cache_file, clock_day, idx, today, force_refresh,
                   progress_callback, results, start_date, attempt, prices,
                   requests, requested, fetched, error_at, caught, throttled, asked, backoff, calls,
                   last_saved, prev>>
    /\ UNCHANGED <<listed, appVars, reply>>

\* The text is complete: the file is closed and results is returned.
SaveClose ==
    /\ pc = "saving"
    /\ Len(cache_file.text) = Len(Dump(price_cache))
    /\ UNCHANGED last_saved
    /\ pc' = "returned"
    /\ UNCHANGED <<price_cache, cache_file, clock_day, idx, today, force_refresh,
                   progress_callback, results, start_date, attempt, prices,
                   faults, requests, requested, fetched, error_at, raised_in, caught, throttled, asked, backoff, calls,
                   prev>>
    /\ UNCHANGED <<listed, appVars, reply>>

\* The caller has the results, or the exception: the engine is idle again.
Finish ==
    /\ pc \in {"returned", "raised"}
    /\ prev' = IF pc = "returned" /\ ~force_refresh /\ today = clock_day
               THEN [valid |-> TRUE, updated |-> SeqToSet(results.updated)]
               ELSE NoPrev
    /\ pc' = "idle"
    /\ idx' = 1
    /\ today' = INCEPTION_DATE
    /\ force_refresh' = FALSE
    /\ progress_callback' = "none"
    /\ results' = NoResults
    /\ start_date' = INCEPTION_DATE
    /\ attempt' = 0
    /\ prices' = None
    /\ requests' = 0
    /\ requested' = {}
    /\ fetched' = EmptyMap
    /\ error_at' = ""
    /\ raised_in' = ""
    /\ caught' = FALSE
    /\ throttled' = FALSE
    /\ asked' = NoRequest
    /\ backoff' = << >>
    /\ calls' = << >>
    /\ last_saved' = EmptyMap
    /\ UNCHANGED <<price_cache, cache_file, clock_day, faults>>
    /\ UNCHANGED <<listed, appVars, reply>>

(* ---------------------------- environment ----------------------------- *)

\* Midnight passes.
NewDay ==
    /\ pc = "idle"
    /\ clock_day < MaxDay
    /\ clock_day' = clock_day + 1
    /\ prev' = NoPrev
    /\ UNCHANGED <<price_cache, cache_file, passVars,
                   faults, requests, requested, fetched, error_at, raised_in, caught, throttled, asked, backoff, calls,
                   last_saved>>
    /\ UNCHANGED <<listed, appVars, reply>>

\* The process stops wherever it is (a crash, a kill, a redeploy) and is
\* started again: a new engine is constructed from the file on disk.
Restart ==
    /\ faults < MaxFaults
    /\ faults' = faults + 1
    /\ price_cache' = _load_cache(cache_file)
    /\ pc' = "idle"
    /\ idx' = 1
    /\ today' = INCEPTION_DATE
    /\ force_refresh' = FALSE
    /\ progress_callback' = "none"
    /\ results' = NoResults
    /\ start_date' = INCEPTION_DATE
    /\ attempt' = 0
    /\ prices' = None
    /\ requests' = 0
    /\ requested' = {}
    /\ fetched' = EmptyMap
    /\ error_at' = ""
    /\ raised_in' = ""
    /\ caught' = FALSE
    /\ throttled' = FALSE
    /\ asked' = NoRequest
    /\ backoff' = << >>
    /\ calls' = << >>
    /\ prev' = NoPrev
    /\ last_saved' = EmptyMap
    /\ UNCHANGED <<cache_file, clock_day>>
    /\ UNCHANGED <<listed, appVars, reply>>

Next ==
    \/ \E force \in BOOLEAN, callback \in {"none", "supplied"} : StartPass(force, callback)
    \/ CallbackRaises
    \/ DecisionRaises
    \/ SkipTicker
    \/ BeginFetch
    \/ FetchAttempt
    \/ FetchExhausted
    \/ MergeTicker
    \/ SaveOpen
    \/ SaveWrite
    \/ SaveFails
    \/ SaveClose
    \/ Finish
    \/ NewDay
    \/ Restart

Spec == Init /\ [][Next]_vars

SpecMid == InitMid /\ [][Next]_vars


(* ============================== app.py =============================== *)
(* The threads of the Flask process: update_data calls on request        *)
(* threads, scheduled_update on the scheduler's thread, background_update *)
(* on the threads they start. One step is one read or write of shared     *)
(* state; a pass is kept as the requests it issues through _rate_limit.   *)

\* A thread slot no background_update thread occupies.
Free(w) == worker[w] = "none"

\* threading.Thread(target=background_update).start() succeeds: the new
\* thread stands before its first statement.
Started(w) == [worker EXCEPT ![w] = "started"]

\* update_data, line 243: the check of refresh_status['running']; a set flag
\* is answered with 400 "Update already in progress".
update_data_check(h) ==
    /\ handler[h] = "idle"
    /\ handler' = [handler EXCEPT ![h] = IF running THEN "idle" ELSE "passed"]
    /\ UNCHANGED <<running, error, worker, issued, sleep_time, job,
                   last_request_age, request_age, request_gap>>
    /\ UNCHANGED <<engineVars, reply>>

\* update_data, lines 256-263: refresh_status is bound to a new dict with
\* running True and without the key 'error'.
update_data_reset(h) ==
    /\ handler[h] = "passed"
    /\ running' = TRUE
    /\ error' = FALSE
    /\ handler' = [handler EXCEPT ![h] = "starting"]
    /\ UNCHANGED <<worker, issued, sleep_time, job,
                   last_request_age, request_age, request_gap>>
    /\ UNCHANGED <<engineVars, reply>>

\* update_data, lines 266-274: the thread starts and the call answers 200.
update_data_start(h) ==
    /\ handler[h] = "starting"
    /\ \E w \in Workers :
         /\ Free(w)
         /\ worker' = Started(w)
    /\ handler' = [handler EXCEPT ![h] = "idle"]
    /\ UNCHANGED <<running, error, issued, sleep_time, job,
                   last_request_age, request_age, request_gap>>
    /\ UNCHANGED <<engineVars, reply>>

\* update_data, lines 268 and 275-280: thread.start() raises (the process
\* can start no new thread); the except clause answers 500 and writes
\* nothing to refresh_status.
update_data_start_fails(h) ==
    /\ handler[h] = "starting"
    /\ handler' = [handler EXCEPT ![h] = "idle"]
    /\ UNCHANGED <<running, error, worker, issued, sleep_time, job,
                   last_request_age, request_age, request_gap>>
    /\ UNCHANGED <<engineVars, reply>>

\* scheduled_update, lines 223-225: the cron job fires and checks the flag.
scheduled_update_check ==
    /\ job = "idle"
    /\ job' = IF running THEN "idle" ELSE "starting"
    /\ UNCHANGED <<running, error, worker, issued, sleep_time, handler,
                   last_request_age, request_age, request_gap>>
    /\ UNCHANGED <<engineVars, reply>>

\* scheduled_update, lines 228-230: the thread starts; the flag is left to it.
scheduled_update_start ==
    /\ job = "starting"
    /\ \E w \in Workers :
         /\ Free(w)
         /\ worker' = Started(w)
    /\ job' = "idle"
    /\ UNCHANGED <<running, error, issued, sleep_time, handler,
                   last_request_age, request_age, request_gap>>
    /\ UNCHANGED <<engineVars, reply>>

\* scheduled_update, line 230: thread.start() raises; the scheduler logs it.
scheduled_update_start_fails ==
    /\ job = "starting"
    /\ job' = "idle"
    /\ UNCHANGED <<running, error, worker, issued, sleep_time, handler,
                   last_request_age, request_age, request_gap>>
    /\ UNCHANGED <<engineVars, reply>>

\* background_update, lines 186-187: the thread's first statement sets the flag.
background_update_begin(w) ==
    /\ worker[w] = "started"
    /\ running' = TRUE
    /\ worker' = [worker EXCEPT ![w] = "pass"]
    /\ issued' = [issued EXCEPT ![w] = 0]
    /\ UNCHANGED <<error, sleep_time, handler, job,
                   last_request_age, request_age, request_gap>>
    /\ UNCHANGED <<engineVars, reply>>

\* _rate_limit, lines 70-75, entered by the pass for its next request: the
\* age of last_request_time is read and the sleep, if any, is begun.
_rate_limit(w) ==
    /\ worker[w] = "pass"
    /\ issued[w] < MaxRequests
    /\ sleep_time' = [sleep_time EXCEPT ![w] =
                        IF last_request_age < min_request_interval
                        THEN min_request_interval - last_request_age
                        ELSE 0]
    /\ worker' = [worker EXCEPT ![w] = "limited"]
    /\ UNCHANGED <<running, error, issued, handler, job,
                   last_request_age, request_age, request_gap>>
    /\ UNCHANGED <<engineVars, reply>>

\* _rate_limit, line 77, and requests.get, line 111: the sleep is over,
\* last_request_time is set to now and the request is issued.
request(w) ==
    /\ worker[w] = "limited"
    /\ sleep_time[w] = 0
    /\ last_request_age' = 0
    /\ request_gap' = request_age
    /\ request_age' = 0
    /\ issued' = [issued EXCEPT ![w] = issued[w] + 1]
    /\ worker' = [worker EXCEPT ![w] = "pass"]
    /\ UNCHANGED <<running, error, sleep_time, handler, job>>
    /\ UNCHANGED <<engineVars, reply>>

\* background_update, lines 191-205: update_price_data returns and the
\* completion is written to refresh_status.
background_update_complete(w) ==
    /\ worker[w] = "pass"
    /\ worker' = [worker EXCEPT ![w] = "finally"]
    /\ UNCHANGED <<running, error, issued, sleep_time, handler, job,
                   last_request_age, request_age, request_gap>>
    /\ UNCHANGED <<engineVars, reply>>

\* background_update, lines 206-211: update_price_data raises and the except
\* clause writes the error to refresh_status.
background_update_except(w) ==
    /\ worker[w] = "pass"
    /\ error' = TRUE
    /\ worker' = [worker EXCEPT ![w] = "finally"]
    /\ UNCHANGED <<running, issued, sleep_time, handler, job,
                   last_request_age, request_age, request_gap>>
    /\ UNCHANGED <<engineVars, reply>>

\* background_update, lines 212-215: the finally clause clears the flag and
\* the thread ends.
background_update_finally(w) ==
    /\ worker[w] = "finally"
    /\ running' = FALSE
    /\ worker' = [worker EXCEPT ![w] = "none"]
    /\ issued' = [issued EXCEPT ![w] = 0]
    /\ UNCHANGED <<error, sleep_time, handler, job,
                   last_request_age, request_age, request_gap>>
    /\ UNCHANGED <<engineVars, reply>>

\* debug_reset, lines 344-351: refresh_status is bound to a new dict with
\* running False.
debug_reset ==
    /\ running' = FALSE
    /\ error' = FALSE
    /\ UNCHANGED <<worker, issued, sleep_time, handler, job,
                   last_request_age, request_age, request_gap>>
    /\ UNCHANGED <<engineVars, reply>>

Older(age) == IF age < min_request_interval THEN age + 1 ELSE age

\* One tick of time passes: time.time() grows and sleeps run down.
Tick ==
    /\ last_request_age' = Older(last_request_age)
    /\ request_age' = Older(request_age)
    /\ sleep_time' = [w \in Workers |->
                        IF sleep_time[w] > 0 THEN sleep_time[w] - 1 ELSE 0]
    /\ UNCHANGED <<running, error, worker, issued, handler, job, request_gap>>
    /\ UNCHANGED <<engineVars, reply>>

\* The process as the module's last lines leave it (389-391): the engine is
\* constructed, and init_data_on_startup has started a background_update
\* thread when the cache is empty.
InitApp ==
    /\ EngineInit({NoFile, FileOf(Dump([t \in {"A"} |-> [d \in {INCEPTION_DATE} |-> 1]]))},
                  {"IWV"})
    /\ reply = NoReply
    /\ running = FALSE
    /\ error = FALSE
    /\ worker = [w \in Workers |->
                   IF w = 1 /\ price_cache = EmptyMap THEN "started" ELSE "none"]
    /\ issued = [w \in Workers |-> 0]
    /\ sleep_time = [w \in Workers |-> 0]
    /\ handler = [h \in Handlers |-> "idle"]
    /\ job = "idle"
    /\ last_request_age = min_request_interval
    /\ request_age = min_request_interval
    /\ request_gap = min_request_interval

NextApp ==
    \/ \E h \in Handlers : update_data_check(h)
    \/ \E h \in Handlers : update_data_reset(h)
    \/ \E h \in Handlers : update_data_start(h)
    \/ \E h \in Handlers : update_data_start_fails(h)
    \/ scheduled_update_check
    \/ scheduled_update_start
    \/ scheduled_update_start_fails
    \/ \E w \in Workers : background_update_begin(w)
    \/ \E w \in Workers : _rate_limit(w)
    \/ \E w \in Workers : request(w)
    \/ \E w \in Workers : background_update_complete(w)
    \/ \E w \in Workers : background_update_except(w)
    \/ \E w \in Workers : background_update_finally(w)
    \/ debug_reset
    \/ Tick

\* Every thread that can take a step takes one, and time passes; when a
\* trigger arrives, and whether debug_reset is ever called, is left open.
FairnessApp ==
    /\ WF_vars(Tick)
    /\ \A h \in Handlers :
         /\ WF_vars(update_data_reset(h))
         /\ WF_vars(update_data_start(h) \/ update_data_start_fails(h))
    /\ WF_vars(scheduled_update_start \/ scheduled_update_start_fails)
    /\ \A w \in Workers :
         /\ WF_vars(background_update_begin(w))
         /\ WF_vars(_rate_limit(w) \/ background_update_complete(w)
                      \/ background_update_except(w))
         /\ WF_vars(request(w))
         /\ WF_vars(background_update_finally(w))

SpecApp == InitApp /\ [][NextApp]_vars /\ FairnessApp

(* -------------------------- analytics routes -------------------------- *)

\* jsonify(data), or the 500 of the except clause when computing data raised.
Jsonify(route, data) ==
    IF data.raised
    THEN [route |-> route, status |-> 500]
    ELSE [route |-> route, status |-> 200, data |-> data]

\* Lines 128-145: the positions by side.
BySide(route, positions) ==
    [route |-> route,
     status |-> 200,
     data |-> [long |-> SelectSeq(positions, LAMBDA p : p.side = "Long"),
               short |-> SelectSeq(positions, LAMBDA p : p.side = "Short"),
               total_positions |-> Len(positions)]]

\* What a route answers when the engine holds cache.
\* summary: the metrics, or 500 when computing them raises (app.py:104-120).
\* positions: the positions by side (123-152); each side has one ticker
\* here, so the sort by P&L has nothing to reorder.
\* charts: the time series, or 500 when computing it raises (155-171).
Answer(route, cache) ==
    CASE route = "summary" -> Jsonify(route, calculate_metrics(cache))
      [] route = "positions" -> BySide(route, calculate_position_returns(cache))
      [] OTHER -> Jsonify(route, chart_data(cache))

\* Mutant: the summary route starts an update pass when the store is empty.
summary_fetches_when_empty ==
    /\ reply' = Answer("summary", price_cache)
    /\ IF price_cache = EmptyMap /\ pc = "idle"
       THEN /\ pc' = "loop"
            /\ running' = TRUE
            /\ UNCHANGED <<listed, price_cache, cache_file, clock_day, idx, today,
                           force_refresh, progress_callback, results, start_date,
                           attempt, prices, histVars,
                           error, worker, issued, sleep_time, handler, job,
                           last_request_age, request_age, request_gap>>
       ELSE UNCHANGED <<engineVars, appVars>>

\* GET /api/portfolio/summary
get_portfolio_summary ==
    /\ reply' = Answer("summary", price_cache)
    /\ UNCHANGED <<engineVars, appVars>>

\* GET /api/portfolio/positions
get_positions ==
    /\ reply' = Answer("positions", price_cache)
    /\ UNCHANGED <<engineVars, appVars>>

\* GET /api/portfolio/charts
get_chart_data ==
    /\ reply' = Answer("charts", price_cache)
    /\ UNCHANGED <<engineVars, appVars>>

\* The series a basket ticker may hold: any prices on the calendar, and
\* possibly a bar of the day before the inception date, at the highest price.
BasketSeries ==
    {[d \in (DOMAIN s) \cup before |-> IF d \in DOMAIN s THEN s[d] ELSE MaxPrice] :
        s \in SeriesOver(Dates), before \in {{}, {INCEPTION_DATE - 1}}}

\* Series whose price rises by one a day, on any days of the calendar.
RampSeries == {[d \in S |-> d] : S \in SUBSET Dates}

\* A store given what each ticker holds; Absent stands for no entry.
Absent == [d \in {INCEPTION_DATE - 2} |-> 0]

StoreOf(a, b, sp, ru) ==
    LET held == [t \in Tickers |->
                    CASE t = "A" -> a [] t = "B" -> b
                      [] t = SP500_TICKER -> sp [] OTHER -> ru]
    IN  [t \in {x \in Tickers : held[x] # Absent} |-> held[t]]

\* The end-to-end scenario: A at 100, 110, 121 and B at 50, 45, 40 on days 1-3.
Scenario ==
    [t \in {"A", "B"} |->
        IF t = "A" THEN <<100, 110, 121>> ELSE <<50, 45, 40>>]

\* An engine constructed over a cache file that holds a store, and the
\* analytics routes called on it.  The stores: any series for the two basket
\* tickers, or none, without benchmarks; rising series for the basket tickers
\* and for the S&P 500, or none, the Russell 3000 holding the same as the
\* S&P 500 or none; and the end-to-end scenario.
InitCalc ==
    /\ \E a \in BasketSeries \cup {Absent}, b \in BasketSeries \cup {Absent},
          sp \in RampSeries \cup {Absent}, same \in BOOLEAN,
          scenario \in BOOLEAN :
          /\ scenario => (a = Absent /\ b = Absent /\ sp = Absent /\ ~same)
          /\ (sp # Absent \/ same) =>
                 (a \in RampSeries \cup {Absent} /\ b \in RampSeries \cup {Absent})
          /\ EngineInit({FileOf(Dump(IF scenario THEN Scenario
                                     ELSE StoreOf(a, b, sp,
                                                  IF same THEN sp ELSE Absent)))},
                        {})
    /\ AppLoaded
    /\ reply = NoReply

NextCalc == get_portfolio_summary \/ get_positions \/ get_chart_data

SpecCalc == InitCalc /\ [][NextCalc]_vars

\* An engine started on a cache file that holds the inception day's price of
\* both basket tickers, against a provider that lists them, and the analytics
\* routes called while it runs passes.
InitQuery ==
    /\ EngineInit({FileOf(Dump([t \in {"A", "B"} |-> [d \in {INCEPTION_DATE} |-> 1]]))},
                  {"A", "B"})
    /\ AppLoaded
    /\ reply = NoReply

\* A pass that nothing interrupts, from its start to its return, the days
\* that go by between passes, and the summary route at any moment.
NextQuery ==
    \/ StartPass(FALSE, "none")
    \/ SkipTicker
    \/ BeginFetch
    \/ FetchAttempt
    \/ FetchExhausted
    \/ MergeTicker
    \/ SaveOpen
    \/ SaveWrite
    \/ SaveClose
    \/ Finish
    \/ NewDay
    \/ get_portfolio_summary

SpecQuery == InitQuery /\ [][NextQuery]_vars

(* ------------------------------ claims -------------------------------- *)

Count(seq, t) == Cardinality({i \in 1..Len(seq) : seq[i] = t})

Updated == SeqToSet(results.updated)

Failed == SeqToSet(results.failed)

Skipped == SeqToSet(results.skipped)

\* update_price_data has ended: it has returned, or an exception has left it.
PassEnded == pc \in {"returned", "raised"}

\* Every ticker of the universe is in exactly one of the lists updated,
\* failed and skipped, exactly once, and the lists hold nothing else.
Partition ==
    /\ \A t \in Tickers :
         Count(results.updated, t) + Count(results.failed, t)
             + Count(results.skipped, t) = 1
    /\ Updated \cup Failed \cup Skipped = Tickers

\* C3: after any update pass the lists updated, failed and skipped partition
\* the ticker universe.
PartitionAfterPass == PassEnded => Partition

\* The part of C3 that holds: the lists a pass returns partition the universe.
PartitionOfReturnedPass == pc = "returned" => Partition

\* C4: an error raised while one ticker is processed (by the progress
\* callback, the fetch decision or the merge) does not leave the pass: the
\* ticker is classified failed and the loop goes on.
TickerErrorContained ==
    raised_in \in {"callback", "decision", "merge"} =>
        pc # "raised" /\ error_at \in Failed

\* The background_update threads inside update_price_data.
InPass == {w \in Workers : worker[w] \in {"pass", "limited"}}

\* C1: at most one update pass executes at any time.
OnePassAtATime == Cardinality(InPass) <= 1

\* C2: between any two consecutive HTTP requests of the engine at least
\* min_request_interval elapses.
RequestsSpaced == request_gap >= min_request_interval

\* C5: whenever refresh_status['running'] is true it is false again later.
RunningEventuallyFalse == running ~> ~running

\* C6: a pass that returns right after another one, both without
\* force_refresh and on the same day, has skipped every ticker the first one
\* updated, and has issued no request for it.
SecondPassSkipsUpdated ==
    (pc = "returned" /\ prev.valid /\ ~force_refresh) =>
        \A t \in prev.updated : t \in Skipped /\ t \notin requested

\* The merge step in progress writes date d of ticker t from the fetched prices.
WrittenByMerge(t, d) ==
    /\ pc = "fetched"
    /\ t = ticker
    /\ Truthy(prices)
    /\ d \in DOMAIN prices.data
    /\ price_cache'[t][d] = prices.data[d]

\* The step is a restart of the process: the store is read from the file.
RestartStep == faults' = faults + 1 /\ pc' = "idle"

\* C7: no step of a pass removes a (ticker, date) entry of the store; an
\* entry changes its price, or appears, only in the merge of fetched prices
\* that hold its date, and then takes the fetched price.
MergeNonDestructive ==
    [][~RestartStep =>
        /\ \A t \in DOMAIN price_cache : \A d \in DOMAIN price_cache[t] :
              /\ t \in DOMAIN price_cache'
              /\ d \in DOMAIN price_cache'[t]
              /\ price_cache'[t][d] # price_cache[t][d] => WrittenByMerge(t, d)
        /\ \A t \in DOMAIN price_cache' : \A d \in DOMAIN price_cache'[t] :
              (t \notin DOMAIN price_cache \/ d \notin DOMAIN price_cache[t])
                  => WrittenByMerge(t, d)]_vars

\* A ticker was merged in this pass and holds a date its fetched prices lack,
\* beside a date they hold.
MergeKeptOlderDate ==
    \E t \in DOMAIN fetched :
        /\ t \in DOMAIN price_cache
        /\ \E d \in DOMAIN price_cache[t] : d \notin DOMAIN fetched[t]
        /\ \E d \in DOMAIN price_cache[t] : d \in DOMAIN fetched[t]

\* C8: at every point of a save in progress, and after a save that failed,
\* loading the file gives the store the file held before the save or the
\* store the save is writing: this is what a process that stops there finds at its
\* next start.
SaveIsAtomic ==
    (pc = "saving" \/ raised_in = "save") =>
        _load_cache(cache_file) \in {last_saved, price_cache}

\* The cache file holds the in-memory store, and the store holds every price
\* fetched in this pass for the updated tickers.
Persisted ==
    /\ _load_cache(cache_file) = price_cache
    /\ \A t \in Updated :
          /\ t \in DOMAIN fetched
          /\ t \in DOMAIN price_cache
          /\ \A d \in DOMAIN fetched[t] :
                d \in DOMAIN price_cache[t] /\ price_cache[t][d] = fetched[t][d]

\* C9: after a pass in which tickers failed the store is persisted (a pass
\* whose write to the file failed aside).
PersistedDespiteFailures ==
    (PassEnded /\ raised_in # "save" /\ Failed # {}) => Persisted

\* The part of C9 that holds: a pass that returns with failed tickers has
\* persisted the store.
PersistedWhenReturned == (pc = "returned" /\ Failed # {}) => Persisted

\* C10: no exception leaves a fetch call, and the value it returns is None or
\* a non-empty mapping.
FetchNeverRaises ==
    /\ raised_in # "fetch"
    /\ pc = "fetched" => (prices = None \/ (~prices.none /\ DOMAIN prices.data # {}))

\* A fetch call has returned after catching an exception.
FetchCaughtWitness == pc = "fetched" /\ caught

\* C11: one fetch call issues at most 3 requests whatever the answers are, a
\* 429 included: every attempt that does not return costs one of the 3, the
\* call returns data only from a 200 answer with bars, and it returns None
\* once the 3 attempts are used up, not before.
FetchWithinThreeRequests ==
    /\ requests <= 3
    /\ pc = "fetch" => requests = attempt
    /\ pc = "fetched" =>
          IF prices = None
          THEN requests = 3 /\ attempt = 3
          ELSE requests = attempt + 1 /\ prices.data # EmptyMap

\* A fetch call that was answered 429 has used up its attempts and returned
\* None.
FetchGaveUpWitness ==
    pc = "fetched" /\ prices = None /\ requests = 3 /\ throttled

\* A step in which an analytics route answers: the routes are the only
\* actions that change reply, and none of them reads it, so every route on
\* every store is such a step from a state whose reply differs.
Query == reply' # reply

\* An update pass is in flight.
InFlight == pc \notin {"idle", "returned", "raised"}

\* The store last saved completely: what the cache file holds, or held when
\* the save in progress opened it.
SavedStore == IF pc = "saving" THEN last_saved ELSE _load_cache(cache_file)

\* C12: an analytics route called while a pass is in flight answers from
\* the store last saved completely, not from what the pass has merged so far.
QueryReadsSavedStore ==
    [][(InFlight /\ Query) => reply' = Answer(reply'.route, SavedStore)]_vars

\* C13: a step of an analytics route issues no provider request and leaves
\* the in-memory store, the cache file and refresh_status as they are.
AnalyticsReadOnly ==
    [][Query => UNCHANGED <<price_cache, cache_file, requests, requested,
                            running, error, pc>>]_vars

\* A route has answered with figures computed from a non-empty time series.
AnalyticsAnsweredWitness ==
    reply.route = "summary" /\ reply.status = 200 /\ ~reply.data.empty

\* C14: in the end-to-end scenario the time series reports, on day 3, a
\* cumulative return of 20.5% and a portfolio value of INITIAL_CAPITAL x 1.205.
ScenarioDayThree ==
    (price_cache = Scenario /\ reply.route = "charts" /\ reply.status = 200) =>
        /\ Len(reply.data.dates) = 3
        /\ reply.data.portfolio_returns[3] = Frac(205, 10)
        /\ reply.data.portfolio_values[3] = Times(Float(INITIAL_CAPITAL), Frac(1205, 1000))

\* The basket tickers on one side that have a price on date d from the
\* inception date on.
Contributing(side, d) ==
    {t \in {(IF side = "Long" THEN TOP_100 ELSE BOTTOM_100)[i] :
               i \in 1..Len(IF side = "Long" THEN TOP_100 ELSE BOTTOM_100)} :
        t \in DOMAIN price_cache /\ d >= INCEPTION_DATE /\ d \in DOMAIN price_cache[t]}

\* The observation dates: those on which a basket ticker has a price.
ObservationDates ==
    {d \in UNION {DOMAIN price_cache[t] : t \in DOMAIN price_cache} :
        Contributing("Long", d) \cup Contributing("Short", d) # {}}

\* price(d) / price(first in-window) - 1 of ticker t.
Rebased(t, d) ==
    LET first == MinOf({x \in DOMAIN price_cache[t] : x >= INCEPTION_DATE})
    IN  Minus(Frac(price_cache[t][d], price_cache[t][first]), Float(1))

RECURSIVE Total(_, _)
Total(S, d) ==
    IF S = {} THEN Float(0)
    ELSE LET t == CHOOSE x \in S : TRUE
         IN  Plus(Rebased(t, d), Total(S \ {t}, d))

\* The unweighted mean over the side's contributing tickers, negated for the
\* short side, 0 when there is none.
SideAverage(side, d) ==
    LET S == Contributing(side, d)
        mean == Over(Total(S, d), Float(Cardinality(S)))
    IN  IF S = {} THEN Float(0)
        ELSE IF side = "Short" THEN Negated(mean) ELSE mean

\* The i-th smallest element of a set of dates.
RECURSIVE Nth(_, _)
Nth(S, i) == IF i = 1 THEN MinOf(S) ELSE Nth(S \ {MinOf(S)}, i - 1)

\* The time series has one row per observation date, in date order, with the
\* combined return (long_avg + short_avg) / 2, in percent in the charts.
CombinedIsHalfSum ==
    /\ reply.status = 200
    /\ IF ObservationDates = {} THEN reply.data.empty
       ELSE /\ ~reply.data.empty
            /\ Len(reply.data.dates) = Cardinality(ObservationDates)
            /\ \A i \in 1..Len(reply.data.dates) :
                  LET d == Nth(ObservationDates, i)
                  IN  /\ reply.data.dates[i] = d
                      /\ reply.data.daily_returns[i] =
                            Times(Over(Plus(SideAverage("Long", d),
                                            SideAverage("Short", d)), Float(2)),
                                  Float(100))

\* C15: on every observation date the combined return is
\* (long_avg + short_avg) / 2, each average taken over the side's tickers that
\* have a price on the date and 0 for a side without one; a ticker without a
\* price on the date is left out.
CombinedReturnEveryDate == reply.route = "charts" => CombinedIsHalfSum

\* The part of C15 that holds: the same when every basket ticker has an entry
\* in the store.
CombinedReturnWhenAllCached ==
    (reply.route = "charts" /\ {"A", "B"} \subseteq DOMAIN price_cache)
        => CombinedIsHalfSum

\* The prices of ticker t from the inception date on.
InWindow(t) ==
    [d \in {x \in DOMAIN price_cache[t] : x >= INCEPTION_DATE} |-> price_cache[t][d]]

\* Both basket tickers are cached with the same prices from inception on.
SamePath ==
    /\ {"A", "B"} \subseteq DOMAIN price_cache
    /\ price_cache["A"] = price_cache["B"]
    /\ DOMAIN InWindow("A") # {}

\* C16: on the same price path the short return is the exact negation of the
\* long return, per position and per date (so that the combined return is 0);
\* a price that doubles from inception gives +100% long and -100% short.
LongShortSymmetry ==
    SamePath =>
        /\ reply.route = "positions" =>
              /\ Len(reply.data.long) = Len(reply.data.short)
              /\ \A i \in 1..Len(reply.data.long) :
                    LET long == reply.data.long[i]
                        short == reply.data.short[i]
                        path == InWindow("A")
                    IN  /\ short.total_return_pct = Negated(long.total_return_pct)
                        /\ short.pnl = Negated(long.pnl)
                        /\ path[MaxOf(DOMAIN path)] = 2 * path[MinOf(DOMAIN path)]
                              => /\ long.total_return_pct = Float(100)
                                 /\ short.total_return_pct = Float(0 - 100)
        /\ reply.route = "charts" =>
              /\ reply.status = 200
              /\ \A i \in 1..Len(reply.data.daily_returns) :
                    reply.data.daily_returns[i] = Float(0)

\* The positions of a long and a short ticker whose price doubled.
DoubledWitness ==
    /\ SamePath
    /\ reply.route = "positions"
    /\ Len(reply.data.long) = 1
    /\ reply.data.long[1].total_return_pct = Float(100)
    /\ reply.data.short[1].total_return_pct = Float(0 - 100)

\* C17: on every date of the time series on which a benchmark has no price
\* but has an earlier one from the inception date on, the benchmark return
\* reported is the benchmark's return on the nearest earlier date it has a
\* price for; the benchmark's gaps remove no date of the time series.
BenchmarkForwardFilled ==
    (reply.route = "charts" /\ reply.status = 200 /\ ~reply.data.empty
        /\ SP500_TICKER \in DOMAIN price_cache) =>
        LET bench == InWindow(SP500_TICKER)
        IN  /\ Len(reply.data.dates) = Cardinality(ObservationDates)
            /\ \A i \in 1..Len(reply.data.dates) :
                  LET d == reply.data.dates[i]
                      earlier == {x \in DOMAIN bench : x < d}
                  IN  (d \notin DOMAIN bench /\ earlier # {}) =>
                        /\ reply.data.sp500_returns # << >>
                        /\ reply.data.sp500_returns[i] =
                              Times(Minus(Frac(bench[MaxOf(earlier)],
                                               bench[MinOf(DOMAIN bench)]),
                                          Float(1)), Float(100))

\* The cache file is absent, or json.load raises on its text (open raising on
\* an unreadable file is caught by the same except clause).
Damaged(file) == ~file.exists \/ ~WellFormed(file.text)

Uncached == ticker \notin DOMAIN price_cache

\* C18: loading never fails. An engine constructed on an absent or damaged
\* cache file holds the empty store; and a pass never skips a ticker that has
\* no entry, it fetches it, and every request for it asks from the inception
\* date.
LoadNeverFails ==
    /\ Damaged(cache_file) => price_cache = EmptyMap
    /\ [][/\ (RestartStep /\ Damaged(cache_file)) => price_cache' = EmptyMap
          /\ (AtTicker /\ Uncached /\ pc' = "loop") => idx' = idx
          /\ (AtTicker /\ Uncached /\ pc' = "fetch") => start_date' = INCEPTION_DATE
          /\ (pc = "fetch" /\ Uncached /\ requests' = requests + 1)
                 => start_date = INCEPTION_DATE]_vars

\* A store loaded from a damaged file: a day after inception the pass has
\* asked for every ticker, the last one from the inception date.
LoadedEmptyWitness ==
    /\ cache_file.exists
    /\ ~WellFormed(cache_file.text)
    /\ price_cache = fetched
    /\ pc = "fetch"
    /\ idx = total
    /\ requested = Tickers
    /\ today > INCEPTION_DATE
    /\ start_date = INCEPTION_DATE

\* One call per ticker of the universe, in universe order.
EveryTickerCalled == [i \in 1..total |-> <<i, total, all_tickers[i]>>]

CalledFor == {calls[i][3] : i \in 1..Len(calls)}

\* C19: a pass given a progress callback (one that returns) has, when it
\* ends, called it exactly once per ticker of the universe, in universe order,
\* with (index, total, ticker), and no request was issued for a ticker before
\* the call for it.
CallbackOncePerTicker ==
    progress_callback = "supplied" /\ raised_in # "callback" =>
        /\ requested \subseteq CalledFor
        /\ PassEnded => calls = EveryTickerCalled

\* The part of C19 that holds: the calls made so far are the first calls of
\* the universe's sequence, each before the requests for its ticker, and a
\* pass that reaches the save has made them all.
CallbackInOrder ==
    progress_callback = "supplied" =>
        /\ Len(calls) <= total
        /\ calls = SubSeq(EveryTickerCalled, 1, Len(calls))
        /\ requested \subseteq CalledFor
        /\ pc \in {"saving", "returned"} => calls = EveryTickerCalled

\* The equity curve the charts report for the store: portfolio_value per
\* observation date.
Equity == chart_data(price_cache).portfolio_values

\* The highest equity up to observation date i of the curve E.
Peak(E, i) ==
    CHOOSE e \in {E[j] : j \in 1..i} : \A j \in 1..i : ~Below(e, E[j])

\* (equity(d) - runningMax(d)) / runningMax(d) on observation date i.
Drawdown(E, i) == Over(Minus(E[i], Peak(E, i)), Peak(E, i))

\* The most negative drawdown over the observation dates.
WorstDrawdown(E) ==
    LET all == {Drawdown(E, i) : i \in 1..Len(E)}
    IN  CHOOSE w \in all : \A d \in all : ~Below(d, w)

StrictlyIncreasing(E) == \A i \in 1..(Len(E) - 1) : Below(E[i], E[i + 1])

\* The curve rises to a peak at p and from there falls to its end.
PeakThenTrough(E, p) ==
    /\ p < Len(E)
    /\ \A i \in 1..(p - 1) : Below(E[i], E[i + 1])
    /\ \A i \in p..(Len(E) - 1) : Below(E[i + 1], E[i])

Percent(q) == Round2(Times(q, Float(100)))

\* C20: the max drawdown the summary reports is, in percent, the most
\* negative value of (equity(d) - runningMax(d)) / runningMax(d) over the
\* observation dates: never positive, 0 when the equity curve is strictly
\* increasing, trough/peak - 1 when the curve rises to one peak and then falls
\* to one trough; the charts report the same drawdown per date.
MaxDrawdownIsWorst ==
    /\ (reply.route = "summary" /\ reply.status = 200 /\ ~reply.data.empty) =>
          LET E == Equity
              reported == reply.data.max_drawdown
          IN  /\ reported = Percent(WorstDrawdown(E))
              /\ ~Below(Float(0), reported)
              /\ StrictlyIncreasing(E) => reported = Float(0)
              /\ \A p \in 1..Len(E) :
                    PeakThenTrough(E, p) =>
                        reported = Percent(Minus(Over(E[Len(E)], E[p]), Float(1)))
    /\ (reply.route = "charts" /\ reply.status = 200 /\ ~reply.data.empty) =>
          LET E == reply.data.portfolio_values
          IN  \A i \in 1..Len(E) :
                  reply.data.drawdown[i] = Times(Drawdown(E, i), Float(100))

\* The summary of a curve that fell from its peak reports a loss.
DrawdownWitness ==
    /\ reply.route = "summary" /\ reply.status = 200 /\ ~reply.data.empty
    /\ \E p \in 1..Len(Equity) : PeakThenTrough(Equity, p)
    /\ Below(reply.data.max_drawdown, Float(0))

\* The summary of a curve that only rose reports no drawdown.
NoDrawdownWitness ==
    /\ reply.route = "summary" /\ reply.status = 200 /\ ~reply.data.empty
    /\ Len(Equity) > 1
    /\ StrictlyIncreasing(Equity)
    /\ reply.data.max_drawdown = Float(0)

\* The background_update thread in slot w is inside update_price_data.
Executing(w) == worker[w] \in {"pass", "limited"}

\* C21: whenever an update pass is executing, refresh_status['running'] is
\* true, whichever trigger started the pass; nothing clears the flag while a
\* pass is in flight.
RunningWhilePassExecutes == (\E w \in Workers : Executing(w)) => running

\* The ticker has a cached series whose latest date is today or later.
Fresh(t) ==
    /\ t \in DOMAIN price_cache
    /\ DOMAIN price_cache[t] # {}
    /\ MaxOf(DOMAIN price_cache[t]) >= today

\* The step classifies the ticker of the loop as skipped.
SkipStep == results'.skipped = Append(results.skipped, ticker)

\* C22: in a pass without force_refresh the step that decides on a ticker
\* classifies it as skipped exactly when the ticker has a cached series whose
\* latest date is on or after today; nothing else puts a ticker into the
\* skipped list, and no request is issued for a skipped ticker.
SkippedExactlyWhenFresh ==
    [][/\ (AtTicker /\ ~force_refresh
             /\ (pc' \in {"loop", "fetch"} \/ raised_in' = "decision"))
            => (SkipStep <=> Fresh(ticker))
       /\ (results'.skipped # results.skipped /\ results'.skipped # << >>)
            => (AtTicker /\ SkipStep /\ requested' = requested)
       /\ (SeqToSet(results.skipped) \cap requested)' = {}]_vars

\* A pass without force_refresh has returned: A was skipped, and requests
\* were issued for every other ticker.
SkippedWitness ==
    /\ pc = "returned"
    /\ ~force_refresh
    /\ Skipped = {"A"}
    /\ requested = Tickers \ {"A"}

\* The request just issued asks for the full range: the inception date
\* through today.
FullRange == asked = [date_from |-> INCEPTION_DATE, date_to |-> today]

\* C23: every request for a ticker that has no cached series, and every
\* request of a pass with force_refresh, asks for the range from the inception
\* date through today; a pass with force_refresh skips no ticker and, when it
\* reaches the save, has requested every ticker.
FullHistoryWhenUncachedOrForced ==
    /\ (pc = "fetch" /\ requests > 0 /\ (force_refresh \/ Uncached)) => FullRange
    /\ force_refresh => Skipped = {}
    /\ (force_refresh /\ pc \in {"saving", "returned"}) => requested = Tickers

\* A forced pass a day after inception asks for the full range of a ticker
\* that is cached up to today.
ForcedFullWitness ==
    /\ pc = "fetch"
    /\ requests > 0
    /\ force_refresh
    /\ Fresh(ticker)
    /\ today > INCEPTION_DATE
    /\ FullRange

\* A ticker without a cached series is asked for in full a day after inception.
UncachedFullWitness ==
    /\ pc = "fetch"
    /\ requests > 0
    /\ ~force_refresh
    /\ Uncached
    /\ today > INCEPTION_DATE
    /\ FullRange

\* The ticker has a cached series and its latest date is before today.
Stale(t) ==
    /\ t \in DOMAIN price_cache
    /\ DOMAIN price_cache[t] # {}
    /\ MaxOf(DOMAIN price_cache[t]) < today

BackoffSchedule ==
    /\ Len(backoff) >= 1 => backoff[1] = 0
    /\ Len(backoff) >= 2 => backoff[2] = 5
    /\ \A i \in 3..Len(backoff) : backoff[i] > backoff[i - 1]

\* A trigger starts the thread of a new pass in slot w.
PassStarted(w) == worker[w] = "none" /\ worker'[w] = "started"

\* C26: when a trigger, manual or scheduled, starts the thread of a new pass
\* while no other pass is alive, the status it leaves to the pass holds no
\* error of an earlier pass.
CleanStatusAtPassStart ==
    [][\A w \in Workers :
          (PassStarted(w) /\ \A v \in Workers \ {w} : worker[v] = "none")
              => ~error']_vars

\* The positions the route reports, both sides.
Reported == SeqToSet(reply.data.long) \cup SeqToSet(reply.data.short)

\* C27: every Position reported is of a ticker with at least 2 cached prices
\* dated on or after the inception date.
PositionNeedsTwoInWindow ==
    (reply.route = "positions" /\ reply.status = 200) =>
        \A p \in Reported : Cardinality(DOMAIN InWindow(p.ticker)) >= 2

\* The store without its prices dated before the inception date.
Trimmed == [t \in DOMAIN price_cache |-> InWindow(t)]

\* The return in percent of a position of the side over the price path w,
\* from the path's first price to its last.
PathReturn(side, w) ==
    LET long == Times(Minus(Over(Float(w[MaxOf(DOMAIN w)]), Float(w[MinOf(DOMAIN w)])),
                            Float(1)),
                      Float(100))
    IN  IF side = "Short" THEN Negated(long) ELSE long

\* A price dated before the inception date is cached and differs from the
\* ticker's first price in the window.
EarlierPrice(t) ==
    /\ t \in DOMAIN price_cache
    /\ DOMAIN InWindow(t) # {}
    /\ \E d \in DOMAIN price_cache[t] :
          d < INCEPTION_DATE /\ price_cache[t][d] # InWindow(t)[MinOf(DOMAIN InWindow(t))]

\* C28: every return is measured from the ticker's first cached price dated
\* on or after the inception date.  The time series (its calendar, averages
\* and returns) is the one of the store without the prices dated before
\* inception, and a position's inception price and return are those of the
\* ticker's prices from inception on.
MeasuredFromInception ==
    /\ reply.route = "charts" => reply = Answer("charts", Trimmed)
    /\ (reply.route = "positions" /\ reply.status = 200) =>
          \A p \in Reported :
              /\ p.inception_price =
                     Round2(Float(InWindow(p.ticker)[MinOf(DOMAIN InWindow(p.ticker))]))
              /\ p.total_return_pct = Round2(PathReturn(p.side, InWindow(p.ticker)))

\* A time series with a return other than 0, computed over a store in which
\* a basket ticker has an earlier price that differs from its base price.
EarlierPriceChartWitness ==
    /\ reply.route = "charts"
    /\ reply.status = 200
    /\ ~reply.data.empty
    /\ EarlierPrice("A")
    /\ \E i \in 1..Len(reply.data.daily_returns) : reply.data.daily_returns[i] # Float(0)

\* A position with a return other than 0 of a ticker with such a price.
EarlierPricePositionWitness ==
    /\ reply.route = "positions"
    /\ EarlierPrice("A")
    /\ \E p \in Reported : p.ticker = "A" /\ p.total_return_pct # Float(0)

\* The step is one of a pass, not the construction of a new engine.
PassStep == faults' = faults \/ pc' # "idle"

\* C29: every series a step of a pass adds to the store or changes in it
\* holds at least one date, and so does the series of every ticker the pass
\* in progress has classified as updated.
PassStoresNoEmptySeries ==
    /\ [](\A t \in SeqToSet(results.updated) :
              t \in DOMAIN price_cache /\ DOMAIN price_cache[t] # {})
    /\ [][PassStep =>
            \A t \in DOMAIN price_cache' :
                (t \notin DOMAIN price_cache \/ price_cache'[t] # price_cache[t])
                    => DOMAIN price_cache'[t] # {}]_vars

\* A pass has returned after adding an entry for a ticker that had none.
EntryAddedWitness ==
    /\ pc = "returned"
    /\ RUSSELL3000_TICKER \in SeqToSet(results.updated)
    /\ fetched[RUSSELL3000_TICKER] = price_cache[RUSSELL3000_TICKER]

\* The route has answered with a time series that has rows.
SeriesAnswered ==
    /\ reply.route = "charts"
    /\ reply.status = 200
    /\ ~reply.data.empty

\* The first row of a time series.
FirstRowIsZero(timeseries) ==
    /\ timeseries.rows[1].long_return = Float(0)
    /\ timeseries.rows[1].short_return = Float(0)
    /\ timeseries.rows[1].portfolio_return = Float(0)
    /\ timeseries.rows[1].cumulative_return = Float(0)
    /\ timeseries.rows[1].portfolio_value = Float(INITIAL_CAPITAL)

\* C30: on the first observation date of a non-empty time series long_avg,
\* short_avg, the combined return and the cumulative return are 0 and
\* portfolio_value is INITIAL_CAPITAL, whatever the cached prices are.
FirstObservationIsBase ==
    SeriesAnswered =>
        /\ FirstRowIsZero(calculate_portfolio_timeseries(price_cache))
        /\ reply.data.daily_returns[1] = Float(0)
        /\ reply.data.portfolio_returns[1] = Float(0)
        /\ reply.data.portfolio_values[1] = Float(INITIAL_CAPITAL)

\* A time series of two dates or more whose second date has a return other
\* than 0, over basket tickers whose first prices differ.
LaterDateMovesWitness ==
    /\ SeriesAnswered
    /\ Len(reply.data.dates) >= 2
    /\ reply.data.daily_returns[2] # Float(0)
    /\ reply.data.portfolio_values[2] # Float(INITIAL_CAPITAL)
    /\ DOMAIN InWindow("A") # {}
    /\ DOMAIN InWindow("B") # {}
    /\ InWindow("A")[MinOf(DOMAIN InWindow("A"))] # InWindow("B")[MinOf(DOMAIN InWindow("B"))]

\* The tickers the pass has classified failed or skipped.
FailedOrSkipped == SeqToSet(results.failed) \cup SeqToSet(results.skipped)

\* The step adds, removes or changes the cached series of ticker t.
SeriesChanged(t) ==
    \/ (t \in DOMAIN price_cache) # (t \in DOMAIN price_cache')
    \/ /\ t \in DOMAIN price_cache
       /\ t \in DOMAIN price_cache'
       /\ price_cache'[t] # price_cache[t]

\* C31: a ticker a pass classifies failed or skipped has the cached series
\* it had before the pass.  A step of a pass that changes the store is the
\* merge of the fetched prices of the ticker at hand, which it classifies
\* updated and which is in neither other list, and it changes no other
\* ticker's series or presence; a step that classifies a ticker failed or
\* skipped leaves the store alone; and no ticker classified failed or skipped
\* has had prices merged in the pass.
FailedOrSkippedUntouched ==
    /\ [](\A t \in DOMAIN fetched :
              /\ \A i \in 1..Len(results.failed) : results.failed[i] # t
              /\ \A i \in 1..Len(results.skipped) : results.skipped[i] # t)
    /\ [][PassStep =>
            /\ price_cache' # price_cache =>
                  /\ pc = "fetched"
                  /\ ticker \in DOMAIN fetched'
                  /\ results'.updated = Append(results.updated, ticker)
                  /\ ticker \notin FailedOrSkipped'
                  /\ \A t \in Tickers \ {ticker} : ~SeriesChanged(t)
            /\ (results'.failed # results.failed \/ results'.skipped # results.skipped)
                  => price_cache' = price_cache]_vars

\* A pass has returned that updated one ticker, classified a cached ticker
\* failed and left a ticker without an entry failed and without an entry.
FailedKeptWitness ==
    /\ pc = "returned"
    /\ results.updated # << >>
    /\ "A" \in SeqToSet(results.failed)
    /\ "A" \in DOMAIN price_cache
    /\ SP500_TICKER \in SeqToSet(results.failed)
    /\ SP500_TICKER \notin DOMAIN price_cache

====
